---- MODULE Spec2Model ----
(***************************************************************************)
(* Model of the sync event-stream consumer (services/api.ts streamSync),   *)
(* the two-phase sync progress engine (pages/Dashboard.tsx handleSync and  *)
(* components/SyncStatus) of the GestorCorreo frontend.                    *)
(***************************************************************************)
EXTENDS Integers, Sequences, FiniteSets, TLC

VARIABLES
    selectedAccount,  \* Dashboard state: TRUE when an account is selected
    autoSyncInterval, \* auto_sync_interval of the selected account
    syncState,        \* Dashboard state: NULL or {download, classify}
    streams,          \* one entry per streamSync call: where the call is
    timers,           \* number of pending setTimeout(() => setSyncState(null))
    crashed,          \* the component tree was unmounted by a render error
    fx,               \* side effects of the last handler that ran
    pc,               \* one streamSync call: its position in the function
    sent,             \* the records the server wrote into the response body
    text,             \* the whole text of the response body
    rest,             \* the part of text reader.read() has not returned yet
    buffer,           \* streamSync: let buffer
    records,          \* every element the for-loop over `lines` has visited
    delivered,        \* arguments of the onMessage calls, in order
    errorCalls,       \* number of onError calls
    bulkClassifying,  \* Dashboard state: a bulk classification is running
    messages,         \* the rendered message list
    bpc,              \* handleBulkClassify: "idle", or "await" at its await
    unclassifiedMessages, \* handleBulkClassify: const unclassifiedMessages
    cursor,           \* handleBulkClassify: the loop variable i
    pending,          \* ids of the classify requests that have not settled
    tally,            \* handleBulkClassify: let classified, let failed
    responses,        \* how many classify requests resolved, were rejected
    blog,             \* what the current bulk run did so far, in order
    shown             \* the percentages SyncStatus rendered last

engineVars == <<selectedAccount, autoSyncInterval, syncState, streams, timers, crashed, fx>>
streamVars == <<pc, sent, text, rest, buffer, records, delivered, errorCalls>>
bulkVars == <<bulkClassifying, messages, bpc, unclassifiedMessages, cursor, pending,
              tally, responses, blog>>
viewVars == <<shown>>
vars == <<selectedAccount, autoSyncInterval, syncState, streams, timers, crashed, fx,
          pc, sent, text, rest, buffer, records, delivered, errorCalls,
          bulkClassifying, messages, bpc, unclassifiedMessages, cursor, pending,
          tally, responses, blog, shown>>

\* ---------------------------------------------------------------- bounds
MaxCount == 2
MaxSyncs == 2
MaxTimers == 1
MaxLen == 5
MaxRecords == 3

\* ------------------------------------------------------- JavaScript values
\* undefined, for a numeric field and for a string field
Missing == -1
NoStr == "undefined"

\* the numbers a status object may carry: none, one, many
Counts == {0, 1, MaxCount}

\* x || 0
Or0(x) == IF x = Missing \/ x = 0 THEN 0 ELSE x
\* s || dflt
OrStr(s, dflt) == IF s = NoStr THEN dflt ELSE s
\* truthiness of a number-or-undefined
Truthy(x) == x # Missing /\ x # 0

\* ------------------------------------------------------------ sync session
NULL == [null |-> TRUE]

Phase(st, cur, tot, msg) == [status |-> st, current |-> cur, total |-> tot, message |-> msg]

InitialSyncState ==
    [download |-> Phase("active", 0, 0, "Starting..."),
     classify |-> Phase("pending", 0, 0, "Waiting...")]

\* ------------------------------------------------------------------ events
Event(st, cur, tot, msg, err, cc, nm) ==
    [status |-> st, current |-> cur, total |-> tot, message |-> msg,
     error |-> err, classified_count |-> cc, new_messages |-> nm]

NumOrMissing == Counts \cup {Missing}
StrOrMissing(s) == {s, NoStr}

\* the status objects a stream may carry; a field no branch reads for a tag
\* is left undefined, and a message comes with each tag but not with each
\* combination of numbers
Events ==
    {Event("found_messages", Missing, t, NoStr, NoStr, Missing, Missing) :
        t \in NumOrMissing}
    \cup
    {Event(s, c, t, NoStr, NoStr, Missing, Missing) :
        s \in {"download_progress", NoStr, "classifying_progress"},
        c \in NumOrMissing, t \in NumOrMissing}
    \cup
    {Event(s, c, c, NoStr, NoStr, Missing, Missing) :
        s \in {"downloading", "classifying"}, c \in NumOrMissing}
    \cup
    {Event(s, c, c, "msg", NoStr, Missing, Missing) :
        s \in {"found_messages", "downloading", "download_progress", NoStr,
               "classifying", "classifying_progress"},
        c \in {Missing, MaxCount}}
    \cup
    {Event("complete", Missing, Missing, NoStr, NoStr, cc, nm) :
        cc \in NumOrMissing, nm \in NumOrMissing}
    \cup
    {Event("error", Missing, Missing, NoStr, e, Missing, Missing) :
        e \in StrOrMissing("boom")}
    \cup
    {Event("paused", c, Missing, NoStr, NoStr, Missing, Missing) :
        c \in NumOrMissing}

\* one status object per tag and per shape of its fields, for the runs that
\* exercise the session's life cycle rather than the values it displays
LifecycleEvents ==
    {d \in Events : /\ d.message = NoStr
                    /\ d.current \in {Missing, MaxCount}
                    /\ d.total \in {Missing, MaxCount}
                    /\ d.classified_count \in {Missing, MaxCount}
                    /\ d.new_messages = Missing}

NoEvent == Event(NoStr, Missing, Missing, NoStr, NoStr, Missing, Missing)

\* --------------------------------------------------------------- toasts, fx
NoToast == [kind |-> "none", text |-> "", n |-> 0, m |-> 0]
Toast(k, t, n, m) == [kind |-> k, text |-> t, n |-> n, m |-> m]

\* op: the handler that ran; data: the status object it was given
Fx(op, data, toast, refresh, armed) ==
    [op |-> op, data |-> data, toast |-> toast, refresh |-> refresh, armed |-> armed]

\* --------------------------------------------- Dashboard.tsx: event handler
\* the legacy test without its !data.status half
BranchAnyCurrent(data) ==
    IF data.status = "found_messages" THEN "found"
    ELSE IF data.status = "downloading" \/ data.status = "download_progress"
            \/ Truthy(data.current) THEN "download"
    ELSE IF data.status = "classifying" \/ data.status = "classifying_progress" THEN "classify"
    ELSE IF data.status = "complete" THEN "complete"
    ELSE IF data.status = "error" THEN "error"
    ELSE "none"

\* which branch of the if / else-if chain of the onMessage callback runs
Branch(data) ==
    IF data.status = "found_messages" THEN "found"
    ELSE IF data.status = "downloading" \/ data.status = "download_progress"
            \/ (Truthy(data.current) /\ data.status = NoStr) THEN "download"
    ELSE IF data.status = "classifying" \/ data.status = "classifying_progress" THEN "classify"
    ELSE IF data.status = "complete" THEN "complete"
    ELSE IF data.status = "error" THEN "error"
    ELSE "none"

\* { ...prev!, download: dl }: spreading null yields an object with download only
SpreadDownload(prev, dl) ==
    IF prev = NULL THEN [download |-> dl] ELSE [prev EXCEPT !.download = dl]

\* the updater of a branch dereferences prev!.download: it throws on null
UpdaterThrows(prev, branch) ==
    prev = NULL /\ branch \in {"classify", "complete", "error"}

\* (the default message embeds data.total; its text is kept as a template)
FoundUpdate(prev, data) ==
    SpreadDownload(prev,
        Phase("active", 0, Or0(data.total), OrStr(data.message, "Encontrados n mensajes")))

DownloadUpdate(prev, data) ==
    SpreadDownload(prev,
        Phase("active", Or0(data.current), Or0(data.total), OrStr(data.message, "Descargando...")))

\* the download phase is left as it was
ClassifyUpdateOnly(prev, data) ==
    [download |-> prev.download,
     classify |-> Phase("active", Or0(data.current), Or0(data.total),
                        OrStr(data.message, "Analizando..."))]

ClassifyUpdate(prev, data) ==
    [download |-> [prev.download EXCEPT !.status = "complete", !.message = "Descarga completa"],
     classify |-> Phase("active", Or0(data.current), Or0(data.total),
                        OrStr(data.message, "Analizando..."))]

\* download.current is not moved up to download.total
CompleteUpdateKeepCurrent(prev, data) ==
    LET classified == Or0(data.classified_count) IN
    [download |-> [prev.download EXCEPT !.status = "complete"],
     classify |-> [prev.classify EXCEPT !.status = "complete", !.current = classified,
                                        !.total = classified]]

CompleteUpdate(prev, data) ==
    LET classified == Or0(data.classified_count) IN
    [download |-> [prev.download EXCEPT !.status = "complete", !.current = prev.download.total],
     classify |-> [prev.classify EXCEPT !.status = "complete", !.current = classified,
                                        !.total = classified]]

\* the download phase is built anew, its counts reset
ErrorUpdateZeroed(prev, data) ==
    SpreadDownload(prev, Phase("error", 0, 0, data.error))

ErrorUpdate(prev, data) ==
    SpreadDownload(prev, [prev.download EXCEPT !.status = "error", !.message = data.error])

\* the state the queued updater produces (prev itself when it throws)
Apply(prev, data) ==
    LET b == Branch(data) IN
    IF b = "none" \/ UpdaterThrows(prev, b) THEN prev
    ELSE IF b = "found" THEN FoundUpdate(prev, data)
    ELSE IF b = "download" THEN DownloadUpdate(prev, data)
    ELSE IF b = "classify" THEN ClassifyUpdate(prev, data)
    ELSE IF b = "complete" THEN CompleteUpdate(prev, data)
    ELSE ErrorUpdate(prev, data)

\* the toast a branch shows
EventToast(data) ==
    LET b == Branch(data)
        newCount == Or0(data.new_messages)
        classified == Or0(data.classified_count)
    IN  IF b = "complete" THEN
            IF classified > 0
            THEN Toast("success", "Sincronizados n mensajes y clasificados m", newCount, classified)
            ELSE Toast("success", "Sincronizados n nuevos mensajes", newCount, 0)
        ELSE IF b = "error" THEN Toast("error", OrStr(data.error, "Fallo en sincronizacion"), 0, 0)
        ELSE NoToast

\* queryClient.invalidateQueries({ queryKey: ['messages'] })
EventRefresh(data) == Branch(data) = "complete"

\* setTimeout(() => setSyncState(null), 5000)
EventArmsTimer(data) == Branch(data) = "complete"

\* rendering a session that lacks a phase, or running an updater that throws,
\* raises inside React's render and unmounts the tree (there is no boundary)
RenderFails(prev, data) ==
    LET b == Branch(data) IN b # "none" /\ prev = NULL

\* ------------------------------------------------- SyncStatus: percentage
\* Math.round(x) for x = num / den, den # 0: floor(x + 1/2)
Round(num, den) ==
    IF den > 0 THEN (2 * num + den) \div (2 * den)
    ELSE (2 * (0 - num) + (0 - den)) \div (2 * (0 - den))

\* the percentage without Math.min(100, ...)
getPercentUnclamped(state) ==
    IF state.total = 0 THEN 0 ELSE Round(100 * state.current, state.total)

\* getPercent: 0 when total is 0, else the rounded percentage, at most 100
getPercent(state) ==
    IF state.total = 0 THEN 0
    ELSE LET r == Round(100 * state.current, state.total) IN IF r > 100 THEN 100 ELSE r

\* ------------------------------------------------ SyncStatus: close button
isComplete(s) ==
    s.download.status = "complete"
    /\ (s.classify.status = "complete" \/ s.classify.status = "pending")

\* {onClose && isComplete && <button onClick={onClose}>}
CloseAvailable == ~crashed /\ syncState # NULL /\ isComplete(syncState)

\* disabled={!selectedAccount || (syncState !== null)}
SyncButtonEnabled == ~crashed /\ selectedAccount /\ syncState = NULL

\* ------------------------------------------------------------------ streams
StreamIds == 1 .. MaxSyncs
InFlight(i) == streams[i] \in {"fetch", "read"}
NextStream == CHOOSE i \in StreamIds : streams[i] = "none" /\ \A j \in StreamIds : j < i => streams[j] # "none"
CanStart == \E i \in StreamIds : streams[i] = "none"

\* ------------------------------------------------------ api.ts: streamSync
\* A text is a sequence of symbols: "\n", " ", the five characters "data:",
\* a whole JSON text, or any other run of characters without white space.
NL == "\n"
SP == " "
DATA == "data:"
\* a comment (keepalive) line begins with a colon; five characters of one
COMMENT == ":ping"

JsonComplete == "{\"status\":\"complete\"}"
JsonPaused == "{\"status\":\"paused\"}"
JsonNull == "null"
JsonTruncated == "{\"status\":"

WhiteSpace == {NL, SP}

RECURSIVE SplitFrom(_, _)
\* buffer.split('\n\n'): the pieces between the leftmost, non-overlapping
\* occurrences of the delimiter; piece is the text gathered since the last one
SplitFrom(s, piece) ==
    IF s = << >> THEN <<piece>>
    ELSE IF Len(s) >= 2 /\ s[1] = NL /\ s[2] = NL
         THEN <<piece>> \o SplitFrom(SubSeq(s, 3, Len(s)), << >>)
         ELSE SplitFrom(Tail(s), Append(piece, s[1]))

Split(s) == SplitFrom(s, << >>)

Front(q) == SubSeq(q, 1, Len(q) - 1)
Last(q) == q[Len(q)]

RECURSIVE TrimStart(_)
TrimStart(s) == IF s # << >> /\ s[1] \in WhiteSpace THEN TrimStart(Tail(s)) ELSE s
RECURSIVE TrimEnd(_)
TrimEnd(s) == IF s # << >> /\ Last(s) \in WhiteSpace THEN TrimEnd(Front(s)) ELSE s
\* line.trim()
Trim(s) == TrimEnd(TrimStart(s))

\* any five characters followed by a space pass the test
StartsWithAnyField(line) ==
    LET t == Trim(line) IN Len(t) >= 2 /\ t[2] = SP

\* line.trim().startsWith('data: ')
StartsWithData(line) ==
    LET t == Trim(line) IN Len(t) >= 2 /\ t[1] = DATA /\ t[2] = SP

\* line.trim().slice(6)
JsonStr(line) == LET t == Trim(line) IN SubSeq(t, 3, Len(t))

\* JSON.parse accepts one JSON value with white space around it
JsonValid(str) ==
    LET t == Trim(str) IN Len(t) = 1 /\ t[1] \in {JsonComplete, JsonPaused, JsonNull}

JsonParse(str) ==
    LET v == Trim(str)[1] IN
    IF v = JsonComplete THEN Event("complete", Missing, Missing, NoStr, NoStr, Missing, Missing)
    ELSE IF v = JsonPaused THEN Event("paused", Missing, Missing, NoStr, NoStr, Missing, Missing)
    ELSE NULL

\* the body of the for-loop for one line: the onMessage calls it makes
\* (a JSON.parse failure is caught and logged)
LineMessages(line) ==
    IF StartsWithData(line) /\ JsonStr(line) # << >> /\ JsonValid(JsonStr(line))
    THEN <<JsonParse(JsonStr(line))>>
    ELSE << >>

RECURSIVE LinesMessagesAbort(_)
\* the try/catch put around the loop: a parse failure ends it
LinesMessagesAbort(lines) ==
    IF lines = << >> THEN << >>
    ELSE IF StartsWithData(lines[1]) /\ JsonStr(lines[1]) # << >> /\ ~JsonValid(JsonStr(lines[1]))
         THEN << >>
         ELSE LineMessages(lines[1]) \o LinesMessagesAbort(Tail(lines))

RECURSIVE LinesMessages(_)
LinesMessages(lines) ==
    IF lines = << >> THEN << >>
    ELSE LineMessages(lines[1]) \o LinesMessages(Tail(lines))

\* the remainder is dropped instead of kept
KeepBufferDropped(lines) == << >>

\* buffer = lines.pop() || ''
KeepBuffer(lines) == Last(lines)

\* one turn of the while-loop after a chunk was read
ProcessChunk(buf, chunk) ==
    LET lines == Split(buf \o chunk) IN
    [buffer |-> KeepBuffer(lines), lines |-> Front(lines)]

\* ------------------------------------------------------- Dashboard: actions
\* the auto-select effect picks the first account once the accounts are loaded
AutoSelectAccount ==
    /\ ~crashed /\ ~selectedAccount
    /\ selectedAccount' = TRUE
    /\ fx' = Fx("select", NoEvent, NoToast, FALSE, FALSE)
    /\ UNCHANGED <<autoSyncInterval, syncState, streams, timers, crashed>>
    /\ UNCHANGED <<streamVars, bulkVars, viewVars>>

\* handleSync up to its first await: the session is created and the stream opened
HandleSync(op) ==
    /\ selectedAccount
    /\ CanStart
    /\ syncState' = InitialSyncState
    /\ streams' = [streams EXCEPT ![NextStream] = "fetch"]
    /\ fx' = Fx(op, NoEvent, NoToast, FALSE, FALSE)
    /\ UNCHANGED <<selectedAccount, autoSyncInterval, timers, crashed>>
    /\ UNCHANGED <<streamVars, bulkVars, viewVars>>

\* the sync button
ClickSync ==
    /\ SyncButtonEnabled
    /\ HandleSync("clickSync")

\* the setInterval callback of the auto-sync effect
AutoSyncTick ==
    /\ ~crashed /\ selectedAccount /\ autoSyncInterval > 0
    /\ syncState = NULL
    /\ HandleSync("autoSync")

\* fetch resolved with an ok response that has a body
FetchOk(i) ==
    /\ streams[i] = "fetch"
    /\ streams' = [streams EXCEPT ![i] = "read"]
    /\ fx' = Fx("fetchOk", NoEvent, NoToast, FALSE, FALSE)
    /\ UNCHANGED <<selectedAccount, autoSyncInterval, syncState, timers, crashed>>
    /\ UNCHANGED <<streamVars, bulkVars, viewVars>>

\* the onMessage callback handleSync passes to streamSync
OnMessage(i, data) ==
    /\ streams[i] = "read"
    /\ EventArmsTimer(data) => timers < MaxTimers
    /\ syncState' = IF crashed THEN syncState ELSE Apply(syncState, data)
    /\ crashed' = (crashed \/ RenderFails(syncState, data))
    /\ timers' = IF EventArmsTimer(data) THEN timers + 1 ELSE timers
    /\ fx' = Fx("onMessage", data,
                IF crashed THEN NoToast ELSE EventToast(data),
                EventRefresh(data), EventArmsTimer(data))
    /\ UNCHANGED <<selectedAccount, autoSyncInterval, streams>>
    /\ UNCHANGED <<streamVars, bulkVars, viewVars>>

\* reader.read() answered done: streamSync returns, no callback runs
StreamEnd(i) ==
    /\ streams[i] = "read"
    /\ streams' = [streams EXCEPT ![i] = "closed"]
    /\ fx' = Fx("streamEnd", NoEvent, NoToast, FALSE, FALSE)
    /\ UNCHANGED <<selectedAccount, autoSyncInterval, syncState, timers, crashed>>
    /\ UNCHANGED <<streamVars, bulkVars, viewVars>>

\* the session is kept and its download phase marked as failed
OnErrorStateKept(prev) ==
    IF prev = NULL THEN NULL ELSE [prev EXCEPT !.download.status = "error"]

\* the onError callback handleSync passes to streamSync
OnErrorState(prev) == NULL

\* fetch rejected, the status was not 2xx, the body was missing or a read
\* failed: streamSync's catch calls onError
StreamFail(i) ==
    /\ InFlight(i)
    /\ streams' = [streams EXCEPT ![i] = "closed"]
    /\ syncState' = IF crashed THEN syncState ELSE OnErrorState(syncState)
    /\ fx' = Fx("onError", NoEvent,
                IF crashed THEN NoToast ELSE Toast("error", "Sync connection failed", 0, 0),
                FALSE, FALSE)
    /\ UNCHANGED <<selectedAccount, autoSyncInterval, timers, crashed>>
    /\ UNCHANGED <<streamVars, bulkVars, viewVars>>

\* the callback leaves the session alone
TimerStateKept(prev) == prev

\* the callback of setTimeout(() => setSyncState(null), 5000)
TimerState(prev) == NULL

TimerFire ==
    /\ timers > 0
    /\ timers' = timers - 1
    /\ syncState' = IF crashed THEN syncState ELSE TimerState(syncState)
    /\ fx' = Fx("timer", NoEvent, NoToast, FALSE, FALSE)
    /\ UNCHANGED <<selectedAccount, autoSyncInterval, streams, crashed>>
    /\ UNCHANGED <<streamVars, bulkVars, viewVars>>

\* onClose={() => setSyncState(null)} behind SyncStatus's close button
Dismiss ==
    /\ CloseAvailable
    /\ syncState' = NULL
    /\ fx' = Fx("dismiss", NoEvent, NoToast, FALSE, FALSE)
    /\ UNCHANGED <<selectedAccount, autoSyncInterval, streams, timers, crashed>>
    /\ UNCHANGED <<streamVars, bulkVars, viewVars>>

StreamIdle ==
    /\ pc = "idle" /\ sent = << >> /\ text = << >> /\ rest = << >>
    /\ buffer = << >> /\ records = << >> /\ delivered = << >> /\ errorCalls = 0

\* SyncStatus has not rendered
NotShown == [rendered |-> FALSE, download |-> 0, classify |-> 0]

\* no bulk classification has run, nothing is shown
BulkIdle ==
    /\ bulkClassifying = FALSE /\ messages = << >> /\ bpc = "idle"
    /\ unclassifiedMessages = << >> /\ cursor = 0 /\ pending = {}
    /\ tally = [classified |-> 0, failed |-> 0]
    /\ responses = [resolved |-> 0, rejected |-> 0]
    /\ blog = << >>
    /\ shown = NotShown

Init ==
    /\ selectedAccount = FALSE
    /\ autoSyncInterval = 5
    /\ syncState = NULL
    /\ streams = [i \in StreamIds |-> "none"]
    /\ timers = 0
    /\ crashed = FALSE
    /\ fx = Fx("init", NoEvent, NoToast, FALSE, FALSE)
    /\ StreamIdle
    /\ BulkIdle

Next ==
    \/ AutoSelectAccount
    \/ ClickSync
    \/ AutoSyncTick
    \/ \E i \in StreamIds : FetchOk(i)
    \/ \E i \in StreamIds, data \in LifecycleEvents : OnMessage(i, data)
    \/ \E i \in StreamIds : StreamEnd(i)
    \/ \E i \in StreamIds : StreamFail(i)
    \/ TimerFire
    \/ Dismiss

Spec == Init /\ [][Next]_vars

\* ------------------------------------------------- streamSync: one call
\* what the server may write as one record, before the blank line
WellFormedRecords == {<<DATA, SP, JsonComplete>>, <<DATA, SP, JsonPaused>>, <<DATA, SP, JsonNull>>}
MalformedRecords == {<<DATA, SP, JsonTruncated>>}
\* a comment line that goes on with JSON text, a data field with nothing after it
OtherRecords == {<<COMMENT, SP, JsonComplete>>, <<DATA, SP>>}
RecordTexts == WellFormedRecords \cup MalformedRecords \cup OtherRecords

\* what may follow the last blank line
Fragments == {<< >>, <<DATA, SP, JsonComplete>>}

RECURSIVE Wire(_)
\* each record followed by the delimiter
Wire(recs) == IF recs = << >> THEN << >> ELSE recs[1] \o <<NL, NL>> \o Wire(Tail(recs))

SeqsUpTo(S, n) == UNION {[1 .. k -> S] : k \in 0 .. n}

\* arbitrary short texts, with the delimiter characters anywhere
RawTexts == SeqsUpTo({NL, "a", "b"}, MaxLen)

\* no text is longer than this
MaxTextLen == MaxLen + 5 * MaxRecords + 3

InitStream ==
    /\ selectedAccount = FALSE
    /\ autoSyncInterval = 5
    /\ syncState = NULL
    /\ streams = [i \in StreamIds |-> "none"]
    /\ timers = 0
    /\ crashed = FALSE
    /\ fx = Fx("init", NoEvent, NoToast, FALSE, FALSE)
    /\ pc = "fetch"
    /\ \/ /\ sent \in SeqsUpTo(RecordTexts, MaxRecords)
          /\ \E frag \in Fragments : text = Wire(sent) \o frag
       \/ /\ sent = << >>
          /\ text \in RawTexts
    /\ rest = text
    /\ buffer = << >>
    /\ records = << >>
    /\ delivered = << >>
    /\ errorCalls = 0
    /\ BulkIdle

\* await fetch(...) resolved with response.ok and a body reader
StreamFetchOk ==
    /\ pc = "fetch"
    /\ pc' = "read"
    /\ UNCHANGED <<sent, text, rest, buffer, records, delivered, errorCalls>>
    /\ UNCHANGED <<engineVars, bulkVars, viewVars>>

\* the failure is swallowed: the function returns without calling onError
StreamFetchFailSilent ==
    /\ pc = "fetch"
    /\ pc' = "failed"
    /\ UNCHANGED <<sent, text, rest, buffer, records, delivered, errorCalls>>
    /\ UNCHANGED <<engineVars, bulkVars, viewVars>>

\* fetch rejected, !response.ok, or no reader: the catch block calls onError
StreamFetchFail ==
    /\ pc = "fetch"
    /\ pc' = "failed"
    /\ errorCalls' = errorCalls + 1
    /\ UNCHANGED <<sent, text, rest, buffer, records, delivered>>
    /\ UNCHANGED <<engineVars, bulkVars, viewVars>>

\* the onMessage callback reads data.status first: on null this raises a
\* TypeError before any state is touched
HandlerThrows(v) == v = NULL

\* only JSON.parse stands inside the try block: what the handler raises
\* leaves the loop
CaughtInLoopParseOnly(v) == ~HandlerThrows(v)

\* onMessage(parsed) stands inside try { ... } catch (e) { console.error(...) }
CaughtInLoop(v) == TRUE

\* the lines of a chunk at which an exception leaves the for-loop
ThrowAt(lines) ==
    {n \in 1 .. Len(lines) :
        LET m == LineMessages(lines[n]) IN
        m # << >> /\ HandlerThrows(m[1]) /\ ~CaughtInLoop(m[1])}

\* reader.read() returned the next k symbols: one turn of the while-loop
StreamRead(k) ==
    /\ pc = "read"
    /\ k \in 1 .. Len(rest)
    /\ LET r == ProcessChunk(buffer, SubSeq(rest, 1, k))
           t == ThrowAt(r.lines)
       IN  IF t = {}
           THEN /\ buffer' = r.buffer
                /\ records' = records \o r.lines
                /\ delivered' = delivered \o LinesMessages(r.lines)
                /\ UNCHANGED <<pc, errorCalls>>
           ELSE LET n == CHOOSE n \in t : \A m \in t : n <= m IN
                \* the outer catch calls onError
                /\ buffer' = r.buffer
                /\ records' = records \o SubSeq(r.lines, 1, n)
                /\ delivered' = delivered \o LinesMessages(SubSeq(r.lines, 1, n))
                /\ pc' = "failed"
                /\ errorCalls' = errorCalls + 1
    /\ rest' = SubSeq(rest, k + 1, Len(rest))
    /\ UNCHANGED <<sent, text>>
    /\ UNCHANGED <<engineVars, bulkVars, viewVars>>

\* reader.read() rejected: the catch block calls onError
StreamReadFail ==
    /\ pc = "read"
    /\ pc' = "failed"
    /\ errorCalls' = errorCalls + 1
    /\ UNCHANGED <<sent, text, rest, buffer, records, delivered>>
    /\ UNCHANGED <<engineVars, bulkVars, viewVars>>

\* the buffer is flushed as one more record when the stream ends
StreamDoneFlush ==
    /\ pc = "read"
    /\ rest = << >>
    /\ pc' = "done"
    /\ delivered' = delivered \o LineMessages(buffer)
    /\ UNCHANGED <<sent, text, rest, buffer, records, errorCalls>>
    /\ UNCHANGED <<engineVars, bulkVars, viewVars>>

\* reader.read() answered done: break
StreamDone ==
    /\ pc = "read"
    /\ rest = << >>
    /\ pc' = "done"
    /\ UNCHANGED <<sent, text, rest, buffer, records, delivered, errorCalls>>
    /\ UNCHANGED <<engineVars, bulkVars, viewVars>>

NextStreamStep ==
    \/ StreamFetchOk
    \/ StreamFetchFail
    \/ \E k \in 1 .. MaxTextLen : StreamRead(k)
    \/ StreamReadFail
    \/ StreamDone

SpecStream == InitStream /\ [][NextStreamStep]_vars

\* ------------------------------------------ the transition function alone
\* one sync whose stream is being read: every status object is applied to
\* every session one stream can produce
InitApply ==
    /\ selectedAccount = TRUE
    /\ autoSyncInterval = 5
    /\ syncState = InitialSyncState
    /\ streams = [i \in StreamIds |-> IF i = 1 THEN "read" ELSE "none"]
    /\ timers = 0
    /\ crashed = FALSE
    /\ fx = Fx("fetchOk", NoEvent, NoToast, FALSE, FALSE)
    /\ StreamIdle
    /\ BulkIdle

NextApply ==
    \/ \E data \in Events : OnMessage(1, data)
    \/ TimerFire

SpecApply == InitApply /\ [][NextApply]_vars

TypeOK == timers \in 0 .. MaxTimers

\* ------------------------------------- Dashboard.tsx: handleBulkClassify
MaxMessages == 12
MaxStride == 3

\* for (let i = 0; ...; i += 5), slice(i, i + 5)
BatchSize == 5

Min(a, b) == IF a < b THEN a ELSE b

Message(id, label) == [id |-> id, classification_label |-> label]

\* a list of len messages in which every stride-th one carries a label
\* (none does when stride is 0)
MessageList(len, stride) ==
    [k \in 1 .. len |->
        Message(k, IF stride > 0 /\ k % stride = 0 THEN "Interesantes" ELSE "")]

MessageLists == {MessageList(len, stride) : len \in 0 .. MaxMessages, stride \in 0 .. MaxStride}

\* !m.classification_label
HasNoLabel(m) == m.classification_label = ""

\* the filter keeps every message
UnclassifiedAll(msgs) == msgs

\* messages?.filter(m => !m.classification_label) || []
Unclassified(msgs) == SelectSeq(msgs, HasNoLabel)

\* the test never holds
NothingToDoNever(cands) == FALSE

\* unclassifiedMessages.length === 0
NothingToDo(cands) == Len(cands) = 0

\* slice(i): everything from i on
BatchRest(cands, c) == SubSeq(cands, c + 1, Len(cands))

\* unclassifiedMessages.slice(i, i + 5)
Batch(cands, c) == SubSeq(cands, c + 1, Min(c + BatchSize, Len(cands)))

Ids(batch) == {batch[k].id : k \in 1 .. Len(batch)}

\* i + 5, not clamped
ProgressUnclamped(c, n) == c + BatchSize

\* Math.min(i + 5, unclassifiedMessages.length)
Progress(c, n) == Min(c + BatchSize, n)

\* a rejected request counts as classified
CountAll(t, ok) == [t EXCEPT !.classified = @ + 1]

\* try { await axios.post(...); classified++ } catch { failed++ }
Count(t, ok) ==
    IF ok THEN [t EXCEPT !.classified = @ + 1] ELSE [t EXCEPT !.failed = @ + 1]

\* a rejected request abandons the requests still in flight
StillPendingFailFast(pend, id, ok) == IF ok THEN pend \ {id} ELSE {}

\* Promise.allSettled waits for each promise, whatever the others did
StillPending(pend, id, ok) == pend \ {id}

\* what a bulk run does: a toast, the classify requests of a batch, a refetch
Effect(kind, txt, a, b, ids) == [kind |-> kind, text |-> txt, a |-> a, b |-> b, ids |-> ids]
Info(txt, a, b) == Effect("info", txt, a, b, << >>)
Post(batch) == Effect("post", "", 0, 0, [k \in 1 .. Len(batch) |-> batch[k].id])

\* the summary is shown without a refetch
AfterLoopNoRefetch(t) ==
    <<Effect("success", "Bulk classification complete!", t.classified, t.failed, << >>)>>

\* refetchMessages(); showSuccess(`... Classified: ${classified}, Failed: ${failed}`)
AfterLoop(t) ==
    <<Effect("refetch", "", 0, 0, << >>),
      Effect("success", "Bulk classification complete!", t.classified, t.failed, << >>)>>

\* the for-loop from its test on: the next batch is posted and awaited, or the
\* loop is left, the list refetched, the summary shown and the flag cleared
LoopFrom(cands, c, t, lg) ==
    IF c < Len(cands)
    THEN [bpc |-> "await", pending |-> Ids(Batch(cands, c)),
          blog |-> lg \o <<Post(Batch(cands, c))>>, bulkClassifying |-> TRUE]
    ELSE [bpc |-> "idle", pending |-> {},
          blog |-> lg \o AfterLoop(t), bulkClassifying |-> FALSE]

\* the button ignores the flag
BulkButtonAlwaysEnabled == selectedAccount

\* disabled={!selectedAccount || bulkClassifying}
BulkButtonEnabled == selectedAccount /\ ~bulkClassifying

NoTally == [classified |-> 0, failed |-> 0]

\* the bulk button: handleBulkClassify up to its first await, or to its
\* return when there is nothing to classify
HandleBulkClassify ==
    /\ BulkButtonEnabled
    /\ LET cands == Unclassified(messages)
           start == <<Info("Starting bulk classification...", 0, 0)>>
       IN  /\ unclassifiedMessages' = cands
           /\ cursor' = 0
           /\ tally' = NoTally
           /\ responses' = [resolved |-> 0, rejected |-> 0]
           /\ IF NothingToDo(cands)
              THEN /\ blog' = start \o <<Info("No unclassified messages found", 0, 0)>>
                   /\ bulkClassifying' = FALSE
                   /\ bpc' = "idle"
                   /\ pending' = {}
              ELSE LET r == LoopFrom(cands, 0, NoTally, start) IN
                   /\ blog' = r.blog
                   /\ bulkClassifying' = r.bulkClassifying
                   /\ bpc' = r.bpc
                   /\ pending' = r.pending
    /\ UNCHANGED messages
    /\ UNCHANGED <<engineVars, streamVars, viewVars>>

\* one axios.post settles: it resolves (ok) or is rejected
RequestSettles(id, ok) ==
    /\ bpc = "await"
    /\ id \in pending
    /\ pending' = StillPending(pending, id, ok)
    /\ tally' = Count(tally, ok)
    /\ responses' = IF ok THEN [responses EXCEPT !.resolved = @ + 1]
                          ELSE [responses EXCEPT !.rejected = @ + 1]
    /\ UNCHANGED <<bulkClassifying, messages, bpc, unclassifiedMessages, cursor, blog>>
    /\ UNCHANGED <<engineVars, streamVars, viewVars>>

\* Promise.allSettled resolved: the progress toast, then the loop goes on
BatchSettled ==
    /\ bpc = "await"
    /\ pending = {}
    /\ LET n == Len(unclassifiedMessages)
           lg == blog \o <<Info("Classifying...", Progress(cursor, n), n)>>
           r == LoopFrom(unclassifiedMessages, cursor + BatchSize, tally, lg)
       IN  /\ cursor' = cursor + BatchSize
           /\ blog' = r.blog
           /\ bulkClassifying' = r.bulkClassifying
           /\ bpc' = r.bpc
           /\ pending' = r.pending
    /\ UNCHANGED <<messages, unclassifiedMessages, tally, responses>>
    /\ UNCHANGED <<engineVars, streamVars, viewVars>>

\* the Dashboard with an account selected and a message list rendered
InitBulk ==
    /\ selectedAccount = TRUE
    /\ autoSyncInterval = 5
    /\ syncState = NULL
    /\ streams = [i \in StreamIds |-> "none"]
    /\ timers = 0
    /\ crashed = FALSE
    /\ fx = Fx("init", NoEvent, NoToast, FALSE, FALSE)
    /\ StreamIdle
    /\ bulkClassifying = FALSE /\ bpc = "idle"
    /\ messages \in MessageLists
    /\ unclassifiedMessages = << >> /\ cursor = 0 /\ pending = {}
    /\ tally = NoTally
    /\ responses = [resolved |-> 0, rejected |-> 0]
    /\ blog = << >>
    /\ shown = NotShown

NextBulk ==
    \/ HandleBulkClassify
    \/ \E id \in 1 .. MaxMessages, ok \in BOOLEAN : RequestSettles(id, ok)
    \/ BatchSettled

SpecBulk == InitBulk /\ [][NextBulk]_vars

\* ------------------------------------------- SyncStatus: what it renders
MaxValue == 4

\* the numbers a status object may carry when the server is not trusted to
\* count: any integer but the one that stands for undefined here
AnyNumbers == (0 - MaxValue .. MaxValue) \ {Missing}

ProgressEvents ==
    {Event(s, c, t, NoStr, NoStr, Missing, Missing) :
        s \in {"download_progress", "classifying_progress"},
        c \in AnyNumbers, t \in AnyNumbers}

\* a session that has applied one progress event
InitPercent ==
    /\ selectedAccount = TRUE
    /\ autoSyncInterval = 5
    /\ \E data \in ProgressEvents :
          /\ syncState = Apply(InitialSyncState, data)
          /\ fx = Fx("onMessage", data, NoToast, FALSE, FALSE)
    /\ streams = [i \in StreamIds |-> IF i = 1 THEN "read" ELSE "none"]
    /\ timers = 0
    /\ crashed = FALSE
    /\ StreamIdle
    /\ BulkIdle

\* SyncStatus renders the two progress bars of the session
Render ==
    /\ syncState # NULL
    /\ ~shown.rendered
    /\ shown' = [rendered |-> TRUE,
                 download |-> getPercent(syncState.download),
                 classify |-> getPercent(syncState.classify)]
    /\ UNCHANGED <<engineVars, streamVars, bulkVars>>

NextPercent == Render

SpecPercent == InitPercent /\ [][NextPercent]_vars

\* =================================================================== claims
\* the text reader.read() has returned so far
Consumed == SubSeq(text, 1, Len(text) - Len(rest))

\* C1: however the text is cut into chunks, also inside the delimiter, the
\* loop visits exactly the complete records, in order, that it visits when
\* the same text arrives as one chunk; this holds after every chunk and at
\* the end of the stream.
C1_ChunkingDoesNotMatter ==
    pc \in {"read", "done"} =>
        /\ records = ProcessChunk(<< >>, Consumed).lines
        /\ pc = "done" => records = ProcessChunk(<< >>, text).lines

\* a chunk ended between the two characters of a delimiter, after a record
C1_Witness ==
    /\ pc = "read"
    /\ Len(records) >= 1
    /\ buffer # << >> /\ Last(buffer) = NL
    /\ rest # << >> /\ rest[1] = NL

\* the server wrote well-formed records and exactly one malformed record
OneMalformed(recs) ==
    /\ \A n \in 1 .. Len(recs) : recs[n] \in WellFormedRecords \cup MalformedRecords
    /\ Cardinality({n \in 1 .. Len(recs) : recs[n] \in MalformedRecords}) = 1

IsWellFormed(rec) == rec \in WellFormedRecords

\* the value a well-formed record carries
RecordValue(rec) == JsonParse(<<rec[3]>>)

\* C2: when the body holds N well-formed records and one record whose
\* payload is not valid JSON, at any position, the stream is read to its end,
\* onMessage has been called exactly once per well-formed record, in their
\* order, and onError has not been called.
C2_MalformedRecordIsSkipped ==
    /\ pc = "read" => errorCalls = 0
    /\ (pc = "done" /\ OneMalformed(sent)) =>
        LET good == SelectSeq(sent, IsWellFormed) IN
        /\ errorCalls = 0
        /\ Len(delivered) = Len(good)
        /\ \A n \in 1 .. Len(good) : delivered[n] = RecordValue(good[n])

\* the malformed record came first and both records after it were delivered
C2_Witness ==
    /\ pc = "done"
    /\ OneMalformed(sent)
    /\ Len(sent) = 3 /\ sent[1] \in MalformedRecords
    /\ Len(delivered) = 2 /\ delivered[1] # delivered[2]

\* the last step ran the event handler on a mounted component
Handled == fx.op = "onMessage"

\* the session is there, with both of its phases
Present(st) == st # NULL /\ DOMAIN st = {"download", "classify"}

NoSideEffect(f) == f.toast = NoToast /\ ~f.refresh /\ ~f.armed

\* the legacy form: an object with a current field and no status field
LegacyForm(data) == data.status = NoStr /\ data.current # Missing

ListedTags == {"found_messages", "download_progress", "classifying_progress", "complete", "error"}
HandledTags == ListedTags \cup {"downloading", "classifying"}

\* C3 as stated: an event whose tag is none of the five listed ones, and
\* which is not the legacy form, changes nothing and has no side effect.
C3_Original ==
    [][(fx'.op = "onMessage" /\ fx'.data.status \notin ListedTags /\ ~LegacyForm(fx'.data))
         => (syncState' = syncState /\ NoSideEffect(fx') /\ timers' = timers)]_vars

\* C3 amended: an event whose tag is none of found_messages, downloading,
\* download_progress, classifying, classifying_progress, complete, error, and
\* which is not the legacy form, leaves the session as it is, shows no toast,
\* refreshes nothing and arms no timer.
C3_UnknownTagIsNoOp ==
    [][(fx'.op = "onMessage" /\ fx'.data.status \notin HandledTags /\ ~LegacyForm(fx'.data))
         => (syncState' = syncState /\ crashed' = crashed
             /\ NoSideEffect(fx') /\ timers' = timers)]_vars

\* an event with an unknown tag and a nonzero current reached a session in progress
C3_Witness ==
    /\ Handled /\ ~crashed
    /\ fx.data.status = "paused" /\ Truthy(fx.data.current)
    /\ Present(syncState) /\ syncState.download.total > 0

\* C4: a complete event applied to a session sets download to
\* {complete, T, T}, T being download.total before the event, and classify to
\* {complete, c, c}, c being the event's classified_count or 0.
C4_CompleteSetsBothPhases ==
    [][(fx'.op = "onMessage" /\ fx'.data.status = "complete" /\ ~crashed /\ Present(syncState))
         => LET c == Or0(fx'.data.classified_count)
                T == syncState.download.total
            IN  /\ Present(syncState')
                /\ syncState'.download.status = "complete"
                /\ syncState'.download.current = T
                /\ syncState'.download.total = T
                /\ syncState'.classify.status = "complete"
                /\ syncState'.classify.current = c
                /\ syncState'.classify.total = c]_vars

\* the first scenario: all messages found were downloaded and none classified
C4_Witness ==
    /\ Handled /\ ~crashed /\ Present(syncState)
    /\ fx.data.status = "complete" /\ fx.data.classified_count = 0
    /\ syncState.download.status = "complete"
    /\ syncState.download.current = MaxCount /\ syncState.download.total = MaxCount
    /\ syncState.classify.status = "complete"
    /\ syncState.classify.current = 0 /\ syncState.classify.total = 0

\* C5: a classifying_progress event sets download.status to complete in the
\* same step, keeps download.current and download.total, and sets classify to
\* {active, current or 0, total or 0}; a complete event after it ends with
\* classify {complete, c, c} for its classified_count c.
C5_ClassifyingCompletesDownload ==
    [][/\ (fx'.op = "onMessage" /\ fx'.data.status = "classifying_progress"
             /\ ~crashed /\ Present(syncState))
          => /\ Present(syncState')
             /\ syncState'.download.status = "complete"
             /\ syncState'.download.current = syncState.download.current
             /\ syncState'.download.total = syncState.download.total
             /\ syncState'.classify.status = "active"
             /\ syncState'.classify.current = Or0(fx'.data.current)
             /\ syncState'.classify.total = Or0(fx'.data.total)
       /\ (fx'.op = "onMessage" /\ fx'.data.status = "complete" /\ ~crashed
             /\ Present(syncState) /\ syncState.classify.status = "active")
          => /\ syncState'.classify.status = "complete"
             /\ syncState'.classify.current = Or0(fx'.data.classified_count)
             /\ syncState'.classify.total = Or0(fx'.data.classified_count)]_vars

\* classification started while the download phase still showed progress
C5_Witness ==
    /\ Handled /\ ~crashed /\ Present(syncState)
    /\ fx.data.status = "classifying_progress"
    /\ syncState.download.status = "complete"
    /\ syncState.download.current < syncState.download.total
    /\ syncState.classify.status = "active"
    /\ syncState.classify.current = MaxCount /\ syncState.classify.total = MaxCount

InErrorState(st) == Present(st) /\ st.download.status = "error"

\* C6 as stated: once an error event is applied the session is present with
\* download.status = error and download.message = the event's error text, and
\* nothing but the user's dismissal makes a session in the error state absent.
C6_Original ==
    [][/\ (fx'.op = "onMessage" /\ fx'.data.status = "error")
          => /\ InErrorState(syncState')
             /\ syncState'.download.message = fx'.data.error
       /\ (InErrorState(syncState) /\ syncState' = NULL) => fx'.op = "dismiss"]_vars

\* success: both phases complete; failure: the download phase in error
Terminal(st) ==
    /\ Present(st)
    /\ \/ st.download.status = "complete" /\ st.classify.status = "complete"
       \/ st.download.status = "error"

\* C7 as stated: in both terminal states of a session the user's dismiss
\* action is available.
C7_Original == (~crashed /\ Terminal(syncState)) => CloseAvailable

\* C8: when streamSync calls the error callback the session becomes absent,
\* whatever its phases were, no phase is marked as failed, and the one toast
\* shown is the connection failure; nothing is refreshed, no timer is armed.
C8_TransportErrorDiscardsSession ==
    [][(fx'.op = "onError" /\ ~crashed)
         => /\ syncState' = NULL
            /\ fx'.toast = Toast("error", "Sync connection failed", 0, 0)
            /\ ~fx'.refresh /\ ~fx'.armed
            /\ timers' = timers]_vars

\* the stream failed after it had delivered its complete event
C8_Witness ==
    /\ fx.op = "onError" /\ ~crashed
    /\ syncState = NULL
    /\ fx.toast.kind = "error"
    /\ timers > 0
    /\ \E i \in StreamIds : streams[i] = "closed"

\* the event loop runs every timer it holds
FairSpec == Spec /\ WF_vars(TimerFire)

C10_Original == Cardinality({i \in StreamIds : InFlight(i)}) <= 1

Statuses == {"pending", "active", "complete", "error"}

WellFormedPhase(p) ==
    /\ DOMAIN p = {"status", "current", "total", "message"}
    /\ p.status \in Statuses
    /\ p.current \in Nat /\ p.total \in Nat

\* C11 as stated: the session is absent or holds a download and a classify
\* phase, each with one of the four statuses, a current and a total, also
\* when events arrive after the session was dismissed or cleared by the timer.
C11_Original ==
    \/ syncState = NULL
    \/ /\ Present(syncState)
       /\ WellFormedPhase(syncState.download)
       /\ WellFormedPhase(syncState.classify)

\* ------------------------------------------------ bulk classification runs
IsPost(e) == e.kind = "post"
IsReport(e) == e.kind = "info" /\ e.text = "Classifying..."
IsRefetch(e) == e.kind = "refetch"
IsSummary(e) == e.kind = "success"
IsNothingToDo(e) == e.kind = "info" /\ e.text = "No unclassified messages found"

PostsOf(lg) == SelectSeq(lg, IsPost)
ReportsOf(lg) == SelectSeq(lg, IsReport)

RECURSIVE Flatten(_)
Flatten(posts) == IF posts = << >> THEN << >> ELSE posts[1].ids \o Flatten(Tail(posts))

\* the ids of the requests posted so far, in order
PostedIds == Flatten(PostsOf(blog))

\* the candidates: ids of the rendered messages without a label, in list order
CandidatePositions == {k \in 1 .. Len(messages) : messages[k].classification_label = ""}
RECURSIVE IdsFrom(_)
IdsFrom(k) ==
    IF k > Len(messages) THEN << >>
    ELSE (IF k \in CandidatePositions THEN <<messages[k].id>> ELSE << >>) \o IdsFrom(k + 1)
CandidateIds == IdsFrom(1)
NumCandidates == Cardinality(CandidatePositions)

\* ceil(n / 5)
NumBatches(n) == (n + BatchSize - 1) \div BatchSize

\* a run was started and has returned
RunOver == bpc = "idle" /\ blog # << >>

Settled == responses.resolved + responses.rejected

\* C12: whatever requests fail, a failure cancels no request of its batch
\* and no later batch: each posted request is in flight or has settled, a
\* finished run has posted and settled every candidate, reported every batch
\* and ends with the summary, no error toast is ever shown, and one failure
\* among the first five gives the tally classified 4, failed 1.
C12_FailureCancelsNothing ==
    /\ \A k \in 1 .. Len(blog) : blog[k].kind # "error"
    /\ Cardinality(pending) + Settled = Len(PostedIds)
    /\ (RunOver /\ NumCandidates >= 1)
        => /\ PostedIds = CandidateIds
           /\ Settled = NumCandidates
           /\ Len(ReportsOf(blog)) = NumBatches(NumCandidates)
           /\ IsSummary(blog[Len(blog)])
    /\ (Settled = BatchSize /\ responses.rejected = 1)
        => tally = [classified |-> 4, failed |-> 1]

\* one request of the first batch failed and the second batch is in flight
C12_Witness ==
    /\ bpc = "await" /\ cursor = BatchSize
    /\ Settled = BatchSize /\ responses.rejected = 1
    /\ tally = [classified |-> 4, failed |-> 1]
    /\ Cardinality(pending) = BatchSize

\* C13: the requests in flight all belong to the batch the loop is at, there
\* are at most 5 of them, and new requests go out only when none is in flight.
C13_OneBatchInFlight ==
    [][/\ Cardinality(pending') <= 5
       /\ pending' \subseteq {unclassifiedMessages'[k].id :
                k \in (cursor' + 1 .. cursor' + 5) \cap DOMAIN unclassifiedMessages'}
       /\ ~(pending' \subseteq pending) => pending = {}]_vars

\* the second batch is in flight, whole, and a third will follow
C13_Witness ==
    /\ bpc = "await" /\ cursor = BatchSize
    /\ Cardinality(pending) = 5
    /\ Len(unclassifiedMessages) > 2 * BatchSize

\* C14: the k-th progress report of a run over n candidates is shown when no
\* request is in flight, says min(5k, n) of n, and the tally then sums to
\* min(5k, n); twelve candidates that all succeed give 5/12, 10/12, 12/12.
C14_ProgressReports ==
    [][/\ Len(ReportsOf(blog')) = Len(ReportsOf(blog)) + 1
          => LET k == Len(ReportsOf(blog'))
                 n == NumCandidates
                 rep == ReportsOf(blog')[k]
             IN  /\ pending = {}
                 /\ Settled = IF 5 * k < n THEN 5 * k ELSE n
                 /\ rep.a = (IF 5 * k < n THEN 5 * k ELSE n) /\ rep.b = n
                 /\ tally'.classified + tally'.failed = rep.a
       /\ (RunOver' /\ NumCandidates' = 12 /\ responses'.rejected = 0)
          => /\ [j \in 1 .. 3 |-> <<ReportsOf(blog')[j].a, ReportsOf(blog')[j].b>>]
                    = << <<5, 12>>, <<10, 12>>, <<12, 12>> >>
             /\ Len(ReportsOf(blog')) = 3]_vars

\* twelve candidates, all classified: the third report said 12/12
C14_Witness ==
    /\ RunOver /\ NumCandidates = 12
    /\ responses.rejected = 0 /\ tally.classified = 12
    /\ Len(ReportsOf(blog)) = 3
    /\ ReportsOf(blog)[3].a = 12 /\ ReportsOf(blog)[3].b = 12

\* C15: a run over n >= 1 candidates posts one request per candidate and
\* none for a labelled message: its k-th batch is candidates 5(k-1)+1 ..
\* min(5k, n), and a finished run has posted ceil(n/5) batches, of which only
\* the last may be short.
C15_OneRequestPerCandidate ==
    LET n == NumCandidates
        posts == PostsOf(blog)
    IN  /\ \A k \in 1 .. Len(posts) :
            /\ posts[k].ids = [j \in 1 .. (IF 5 * k < n THEN 5 ELSE n - 5 * (k - 1))
                                 |-> CandidateIds[5 * (k - 1) + j]]
            /\ Len(posts[k].ids) >= 1
        /\ (RunOver /\ n >= 1)
            => /\ Len(posts) = NumBatches(n)
               /\ PostedIds = CandidateIds

\* a list with labelled messages in it: eight candidates went out as 5 and 3
C15_Witness ==
    /\ RunOver /\ NumCandidates = 8 /\ Len(messages) = 12
    /\ Len(PostsOf(blog)) = 2
    /\ Len(PostsOf(blog)[2].ids) = 3
    /\ PostsOf(blog)[2].ids[1] = 8

\* C16: a run over n >= 1 candidates shows one summary, as its last act,
\* after the refetch and when every request has settled; its classified is
\* the number of requests that resolved, its failed the number rejected, and
\* the two sum to n.
C16_OneSummary ==
    LET sums == SelectSeq(blog, IsSummary) IN
    /\ bpc = "await" => sums = << >>
    /\ (RunOver /\ NumCandidates >= 1)
        => /\ Len(sums) = 1
           /\ IsSummary(blog[Len(blog)])
           /\ \E k \in 1 .. Len(blog) - 1 : IsRefetch(blog[k])
           /\ pending = {} /\ Settled = NumCandidates
           /\ sums[1].a = responses.resolved
           /\ sums[1].b = responses.rejected
           /\ sums[1].a + sums[1].b = NumCandidates

\* a run of three batches in which some requests failed and some did not
C16_Witness ==
    /\ RunOver /\ NumCandidates = 11
    /\ responses.resolved = 8 /\ responses.rejected = 3
    /\ blog[Len(blog)].kind = "success"
    /\ blog[Len(blog)].a = 8 /\ blog[Len(blog)].b = 3

Refetches == SelectSeq(blog, IsRefetch)

\* C17 as stated: the refetch is invoked after each batch, ceil(n/5) times
\* in a run over n candidates.
C17_Original ==
    (RunOver /\ NumCandidates >= 1) => Len(Refetches) = NumBatches(NumCandidates)

\* C17 amended: the refetch is invoked once in a run over n >= 1 candidates,
\* after the progress report of the last batch and right before the summary;
\* no refetch happens while a batch is awaited.
C17_RefetchOnceAfterLastBatch ==
    /\ bpc = "await" => Refetches = << >>
    /\ (RunOver /\ NumCandidates >= 1)
        => /\ Len(Refetches) = 1
           /\ Len(blog) >= 3
           /\ IsRefetch(blog[Len(blog) - 1])
           /\ IsReport(blog[Len(blog) - 2])
           /\ blog[Len(blog) - 2].a = NumCandidates

\* three batches were classified and the list was refetched once
C17_Witness ==
    /\ RunOver /\ NumCandidates = 12
    /\ Len(ReportsOf(blog)) = 3
    /\ Len(Refetches) = 1

\* C18: when every rendered message has a label (or the list is empty), a
\* run posts no request, refetches nothing, shows no progress, no summary and
\* no error, shows the nothing-to-do message once, and has returned.
C18_NothingToDo ==
    (NumCandidates = 0 /\ blog # << >>)
        => /\ \A k \in 1 .. Len(blog) :
                ~IsPost(blog[k]) /\ ~IsRefetch(blog[k]) /\ ~IsReport(blog[k])
                /\ ~IsSummary(blog[k]) /\ blog[k].kind # "error"
           /\ Len(SelectSeq(blog, IsNothingToDo)) = 1
           /\ bpc = "idle" /\ ~bulkClassifying /\ pending = {}
           /\ Settled = 0

\* the list is not empty and each of its messages is labelled
C18_Witness ==
    /\ Len(messages) = MaxMessages /\ NumCandidates = 0
    /\ Len(blog) = 2 /\ IsNothingToDo(blog[2])
    /\ ~bulkClassifying

\* C19 as stated: an event with a current field and no status field, also
\* with current = 0, sets download to {active, current, total or 0} and
\* leaves classify as it was.
C19_Original ==
    [][(fx'.op = "onMessage" /\ LegacyForm(fx'.data) /\ ~crashed /\ Present(syncState))
         => /\ Present(syncState')
            /\ syncState'.download.status = "active"
            /\ syncState'.download.current = fx'.data.current
            /\ syncState'.download.total = Or0(fx'.data.total)
            /\ syncState'.classify = syncState.classify]_vars

PhaseNames == {"download", "classify"}

\* C20 as stated: in each phase of a session, current <= total when total is
\* not zero, whatever the events carried.
C20_Original ==
    Present(syncState)
        => \A ph \in PhaseNames :
              syncState[ph].total # 0 => syncState[ph].current <= syncState[ph].total

\* C20 amended: the session stores the numbers its events carried, so current
\* may exceed total; the percentage shown for each phase is at most 100
\* whatever the events carried, it is 0 when total is 0 and 100 when
\* current >= total > 0.
C20_PercentIsClamped ==
    Present(syncState)
        => \A ph \in PhaseNames :
              /\ getPercent(syncState[ph]) <= 100
              /\ syncState[ph].total = 0 => getPercent(syncState[ph]) = 0
              /\ syncState[ph].current >= syncState[ph].total /\ syncState[ph].total > 0
                    => getPercent(syncState[ph]) = 100

\* an event carried more downloaded messages than it announced
C20_Witness ==
    /\ Handled /\ ~crashed /\ Present(syncState)
    /\ fx.data.status = "download_progress"
    /\ syncState.download.total = 1
    /\ syncState.download.current = MaxCount
    /\ getPercent(syncState.download) = 100

\* clamp(x, 0, 100)
Clamp0To100(x) == IF x < 0 THEN 0 ELSE IF x > 100 THEN 100 ELSE x

\* C21 as stated: for every phase the engine can store, the percentage
\* rendered is 0 when total is 0 and otherwise round(100 * current / total)
\* clamped into 0..100, so it is always an integer between 0 and 100.
C21_Original ==
    shown.rendered
        => \A ph \in PhaseNames :
              /\ shown[ph] \in 0 .. 100
              /\ syncState[ph].total = 0 => shown[ph] = 0
              /\ syncState[ph].total # 0
                    => shown[ph] = Clamp0To100(Round(100 * syncState[ph].current,
                                                     syncState[ph].total))

\* C22: a call that fails before it reads (the response is not 2xx, fetch
\* rejects, there is no body) calls onError once, has read nothing and has
\* delivered nothing; a call never calls onError twice, and once it has
\* called it, it reads nothing and delivers nothing more.
C22_ErrorCallbackOnce ==
    [][/\ errorCalls' <= 1
       /\ (pc = "fetch" /\ pc' = "failed")
            => /\ errorCalls' = 1
               /\ delivered' = << >> /\ records' = << >>
               /\ rest' = text' /\ buffer' = << >>
       /\ errorCalls >= 1
            => /\ errorCalls' = errorCalls
               /\ delivered' = delivered /\ records' = records /\ rest' = rest]_vars

\* the response carried records and was rejected for its status
C22_Witness ==
    /\ pc = "failed" /\ errorCalls = 1
    /\ Len(sent) = MaxRecords /\ sent[1] \in WellFormedRecords
    /\ rest = text
    /\ delivered = << >> /\ records = << >>

\* C23: when the stream ends, what is left in the buffer (the text after the
\* last "\n\n") is not delivered, even if it is a well-formed data record:
\* the step that sees the end calls neither onMessage nor onError, and what was
\* delivered is what the records before the last delimiter gave.
C23_FinalFragmentDiscarded ==
    [][(pc = "read" /\ pc' = "done")
         => /\ delivered' = delivered /\ errorCalls' = errorCalls
            /\ records' = records
            /\ buffer' = Last(Split(text'))
            /\ delivered' = LinesMessages(Front(Split(text')))]_vars

\* one record was delivered and a well-formed one without its delimiter was not
C23_Witness ==
    /\ pc = "done" /\ errorCalls = 0
    /\ buffer = <<DATA, SP, JsonComplete>>
    /\ sent = << <<DATA, SP, JsonPaused>> >>
    /\ Len(delivered) = 1 /\ delivered[1].status = "paused"

\* the positions of a record that hold something else than white space
Ink(line) == {n \in 1 .. Len(line) : line[n] \notin WhiteSpace}
FirstInk(line) == CHOOSE n \in Ink(line) : \A m \in Ink(line) : n <= m
LastInk(line) == CHOOSE n \in Ink(line) : \A m \in Ink(line) : m <= n

\* without the white space around it the record begins with `data: ` and
\* something follows the prefix
HasPayload(line) ==
    /\ Ink(line) # {}
    /\ line[FirstInk(line)] = DATA
    /\ FirstInk(line) + 1 <= Len(line) /\ line[FirstInk(line) + 1] = SP
    /\ LastInk(line) >= FirstInk(line) + 2

Payload(line) == SubSeq(line, FirstInk(line) + 2, LastInk(line))

\* the onMessage calls a record is to cause
Expected(line) ==
    IF HasPayload(line) /\ JsonValid(Payload(line)) THEN <<JsonParse(Payload(line))>>
    ELSE << >>

RECURSIVE ExpectedAll(_)
ExpectedAll(lines) ==
    IF lines = << >> THEN << >> ELSE Expected(lines[1]) \o ExpectedAll(Tail(lines))

\* C24: a complete record leads to an onMessage call only if, trimmed, it
\* begins with `data: ` and has text after the prefix (and that text
\* decodes); every other record causes no onMessage and no onError call, and
\* the records after it are processed as if it had not been there.
C24_OnlyDataRecordsAreDecoded ==
    pc \in {"read", "done"}
        => /\ errorCalls = 0
           /\ delivered = ExpectedAll(records)
           /\ \A n \in 1 .. Len(records) :
                ~HasPayload(records[n]) => LineMessages(records[n]) = << >>

\* a comment and an empty data record came before a data record
C24_Witness ==
    /\ pc = "done" /\ errorCalls = 0
    /\ records = << <<COMMENT, SP, JsonComplete>>, <<DATA, SP>>, <<DATA, SP, JsonPaused>> >>
    /\ Len(delivered) = 1 /\ delivered[1].status = "paused"

Started == {i \in StreamIds : streams[i] # "none"}

\* the sync that was started last
Newest == CHOOSE i \in Started : \A j \in Started : j <= i

\* the session on display was created by a sync whose stream has not
\* delivered anything yet, so every pending timer was armed by an earlier sync
SessionOfFreshSync ==
    /\ ~crashed /\ syncState # NULL
    /\ Started # {} /\ streams[Newest] = "fetch"

\* C25 as stated: the timer armed by the complete event of one sync does not
\* clear the session of a later sync; when it fires, that session stays as
\* it is.
C25_Original ==
    [][(fx'.op = "timer" /\ SessionOfFreshSync) => syncState' = syncState]_vars

\* every timer fires, every request is answered or fails, every response
\* body ends or fails
FairSyncSpec ==
    /\ Spec
    /\ WF_vars(TimerFire)
    /\ \A i \in StreamIds : WF_vars(FetchOk(i) \/ StreamFail(i))
    /\ \A i \in StreamIds : WF_vars(StreamEnd(i) \/ StreamFail(i))

\* C26 as stated: every session eventually becomes absent or can be dismissed
\* by the user, also when its stream ends without a complete or error event.
C26_Original ==
    (~crashed /\ syncState # NULL) ~> (syncState = NULL \/ CloseAvailable)

\* C27 as stated: within one session, download.status does not return to
\* active once it is complete or error, and classify.status does not return
\* to active once it is complete, whatever events follow.
C27_Original ==
    [][(fx'.op = "onMessage" /\ ~crashed /\ Present(syncState) /\ Present(syncState'))
         => /\ syncState.download.status \in {"complete", "error"}
                => syncState'.download.status # "active"
            /\ syncState.classify.status = "complete"
                => syncState'.classify.status # "active"]_vars

\* what one onMessage call does to the session
HandleValue(prev, v) == IF HandlerThrows(v) THEN prev ELSE Apply(prev, v)

RECURSIVE SessionAfter(_, _)
\* the session after the calls, in order
SessionAfter(prev, calls) ==
    IF calls = << >> THEN prev
    ELSE SessionAfter(HandleValue(prev, calls[1]), Tail(calls))

IsObject(v) == v # NULL

\* C28: a record whose payload is JSON but no object (null) is handed to the
\* handler, which raises; neither that nor any other record visited ends the
\* read loop or calls onError, the records after it are delivered, and the
\* session is what it would be had the record not been there.
C28_HandlerExceptionIsContained ==
    [][(pc = "read" /\ Len(records') > Len(records))
         => /\ pc' = "read" /\ errorCalls' = 0
            /\ delivered' = delivered
                    \o ExpectedAll(SubSeq(records', Len(records) + 1, Len(records')))
            /\ SessionAfter(InitialSyncState, delivered')
                    = SessionAfter(InitialSyncState, SelectSeq(delivered', IsObject))]_vars

\* null came first and the two records after it were delivered
C28_Witness ==
    /\ pc = "done" /\ errorCalls = 0
    /\ sent = << <<DATA, SP, JsonNull>>, <<DATA, SP, JsonPaused>>, <<DATA, SP, JsonComplete>> >>
    /\ Len(delivered) = 3 /\ delivered[1] = NULL
    /\ SessionAfter(InitialSyncState, delivered).download.status = "complete"

SameCounts(p, q) == p.current = q.current /\ p.total = q.total

\* C29: applied to a session, found_messages and download_progress (tagged
\* or not) leave the classify phase as it is; error leaves the classify phase
\* and download.current and download.total as they are; classifying_progress
\* leaves download.current and download.total as they are.
C29_FrameOfEachEvent ==
    [][(fx'.op = "onMessage" /\ ~crashed /\ Present(syncState))
         => LET tag == fx'.data.status IN
            /\ Present(syncState')
            /\ (tag \in {"found_messages", "download_progress"}
                    \/ (tag = NoStr /\ Truthy(fx'.data.current)))
                 => syncState'.classify = syncState.classify
            /\ tag = "error"
                 => /\ syncState'.classify = syncState.classify
                    /\ SameCounts(syncState'.download, syncState.download)
            /\ tag = "classifying_progress"
                 => SameCounts(syncState'.download, syncState.download)]_vars

\* the error came after part of the download and while classification ran
C29_Witness ==
    /\ Handled /\ ~crashed /\ Present(syncState)
    /\ fx.data.status = "error"
    /\ syncState.download.status = "error"
    /\ syncState.download.current = 1 /\ syncState.download.total = MaxCount
    /\ syncState.classify.status = "active" /\ syncState.classify.total = MaxCount

\* every classify request settles, and the loop goes on once a batch has
FairBulkSpec ==
    /\ SpecBulk
    /\ WF_vars(\E id \in 1 .. MaxMessages, ok \in BOOLEAN : RequestSettles(id, ok))
    /\ WF_vars(BatchSettled)

\* the record of the run starts over: handleBulkClassify was entered
RunRestarts == Len(blog') < Len(blog) \/ Settled' < Settled

\* C30: if every request settles, a bulk run ends, and bulkClassifying is
\* false after it whichever way it ended; the flag is true exactly while a
\* run is at its await, and handleBulkClassify is entered only when no run is
\* in progress, so there is one run at a time.
C30_RunEndsAndClearsFlag ==
    /\ [](bulkClassifying <=> bpc = "await")
    /\ [](RunOver => ~bulkClassifying /\ pending = {})
    /\ [][RunRestarts => (bpc = "idle" /\ ~bulkClassifying)]_vars
    /\ bulkClassifying ~> (~bulkClassifying /\ RunOver)

\* a run of two batches in which every request failed has ended
C30_Witness ==
    /\ RunOver /\ ~bulkClassifying
    /\ NumCandidates = 7 /\ responses.rejected = 7
    /\ tally = [classified |-> 0, failed |-> 7]

====
